---------------------------- MODULE Spec2Model ----------------------------
(***************************************************************************)
(* A model of pythonutilslib (src/utils.py): the static methods of class   *)
(* Utils.  The library keeps no state of its own; the state of the model   *)
(* is the call in progress (op, args, ret), the interpreter's call stack   *)
(* for the recursive factorial, and the file system the persistence        *)
(* helpers act on.                                                         *)
(*                                                                         *)
(* Python strings are modelled as sequences of one-character strings,      *)
(* Python lists as sequences, Python sets as sets.                         *)
(***************************************************************************)
EXTENDS Integers, Sequences, FiniteSets, TLC

VARIABLES
    op,        \* name of the Utils method last called ("idle": none yet)
    args,      \* its positional arguments, as a tuple
    ret,       \* what it returned, or the exception it raised
    finput,    \* factorial: the argument of the outermost call
    frames,    \* factorial: `number` of every active frame, innermost last
    fvalue,    \* factorial: value returned by the frame that returned last
    fstate,    \* factorial: idle | running | returning | returned | RecursionError
    calls,     \* factorial: recursive calls made (line 183) so far
    files,     \* file system: path -> text content of the file, or NoFile
    saved,     \* per path, what wrote it last: the data of that save_json,
               \* or NotJson after a save_csv
    dirs,      \* file system: the set of directories that exist
    before,    \* dirs as they were before the last two create_directory calls
    pc,        \* concurrent create_directory: caller -> position in the method
    mk,        \* concurrent create_directory: caller -> position in os.makedirs
    target     \* concurrent create_directory: the path both callers pass

vars == <<op, args, ret, finput, frames, fvalue, fstate, calls,
          files, saved, dirs, before, pc, mk, target>>

callVars == <<op, args, ret>>
factVars == <<finput, frames, fvalue, fstate, calls>>
jsonVars == <<files, saved>>
dirVars  == <<dirs, before, pc, mk, target>>

(***************************************************************************)
(* Bounds of the model.                                                    *)
(***************************************************************************)
MaxNumber == 180        \* is_prime: largest argument
MaxNegNumber == 4       \* is_prime, generate_prime_numbers: arguments start at -4
MaxLimit == 50          \* generate_prime_numbers: largest limit
MaxFactorialArg == 10   \* factorial: largest argument (beyond RecursionLimit)
MaxNegFactorialArg == 3 \* factorial: arguments start at -3
MaxElem == 3            \* list operations: elements are 1 .. 3
MaxListLen == 2         \* list operations: longest argument list
MaxTextLen == 3         \* text operations: longest argument besides "HelloWorld"
MaxJsonLen == 2         \* JSON: longest list of the generated data
MaxDirDepth == 2        \* directories: most components of a path
RecursionLimit == 8     \* nested frames of factorial the interpreter allows
                        \* (sys.getrecursionlimit(), 1000 by default in
                        \* CPython, less the caller's frames), scaled down

Range(s) == {s[i] : i \in DOMAIN s}

Last(s) == s[Len(s)]

Front(s) == SubSeq(s, 1, Len(s) - 1)

\* every sequence over S of length at most n
SeqsUpTo(S, n) == UNION {[1 .. k -> S] : k \in 0 .. n}

NoRepeats(s) == \A i, j \in DOMAIN s : s[i] = s[j] => i = j

(***************************************************************************)
(* Values the variables hold while their part of the library is not the   *)
(* one being exercised.                                                    *)
(***************************************************************************)
NoCall == op = "idle" /\ ret = "None"

NoFactorial ==
    /\ finput = 0
    /\ frames = <<>>
    /\ fvalue = 0
    /\ fstate = "idle"
    /\ calls = 0

(***************************************************************************)
(* Utils.is_prime (lines 130-151).                                         *)
(***************************************************************************)
RECURSIVE is_prime_loop_lt(_, _)
\* the loop with the bound i * i < number in place of i * i <= number
is_prime_loop_lt(number, i) ==
    IF i * i < number
    THEN IF number % i = 0 \/ number % (i + 2) = 0
         THEN FALSE
         ELSE is_prime_loop_lt(number, i + 6)
    ELSE TRUE

RECURSIVE is_prime_loop(_, _)
\* lines 147-151: while i * i <= number: ...; i += 6; return True
is_prime_loop(number, i) ==
    IF i * i <= number
    THEN IF number % i = 0 \/ number % (i + 2) = 0
         THEN FALSE
         ELSE is_prime_loop(number, i + 6)
    ELSE TRUE

is_prime(number) ==
    IF number <= 1 THEN FALSE
    ELSE IF number <= 3 THEN TRUE
    ELSE IF number % 2 = 0 \/ number % 3 = 0 THEN FALSE
    ELSE is_prime_loop(number, 5)

(***************************************************************************)
(* Utils.generate_prime_numbers (lines 154-168).                           *)
(***************************************************************************)
RECURSIVE generate_prime_numbers_loop(_, _, _)
\* lines 165-167: for num in range(2, limit + 1), with `stop` = limit + 1
generate_prime_numbers_loop(num, stop, primes) ==
    IF num >= stop THEN primes
    ELSE generate_prime_numbers_loop(
             num + 1, stop,
             IF is_prime(num) THEN Append(primes, num) ELSE primes)

\* range(2, limit) in place of range(2, limit + 1)
generate_prime_numbers_exclusive(limit) ==
    generate_prime_numbers_loop(2, limit, <<>>)

generate_prime_numbers(limit) ==
    generate_prime_numbers_loop(2, limit + 1, <<>>)

Numbers == (0 - MaxNegNumber) .. MaxNumber

InitPrime ==
    /\ op = "idle"
    /\ args \in {<<n>> : n \in Numbers}
    /\ ret = "None"
    /\ NoFactorial
    /\ files = <<>> /\ saved = <<>>
    /\ dirs = {} /\ before = <<>> /\ pc = <<>> /\ mk = <<>> /\ target = <<>>

CallIsPrime ==
    /\ op = "idle"
    /\ op' = "is_prime"
    /\ ret' = is_prime(args[1])
    /\ UNCHANGED <<args, factVars, jsonVars, dirVars>>

CallGeneratePrimeNumbers ==
    /\ op = "idle"
    /\ args[1] <= MaxLimit
    /\ op' = "generate_prime_numbers"
    /\ ret' = generate_prime_numbers(args[1])
    /\ UNCHANGED <<args, factVars, jsonVars, dirVars>>

NextPrime == CallIsPrime \/ CallGeneratePrimeNumbers

SpecPrime == InitPrime /\ [][NextPrime]_vars

\* n is prime in the number-theoretic sense: above 1, no divisor strictly between
HasNoProperDivisor(n) == \A d \in 2 .. (n - 1) : n % d # 0

IsPrimeNumber(n) == n > 1 /\ HasNoProperDivisor(n)

StrictlyAscending(s) == \A i \in 1 .. (Len(s) - 1) : s[i] < s[i + 1]

\* C1: is_prime(n) is true exactly when n > 1 and no d with 1 < d < n divides
\* n; so it is false for every n <= 1 and true for 2 and 3, and the 6k+-1 loop
\* neither misses a divisor nor rejects a prime.
C1_IsPrimeExact ==
    op = "is_prime" =>
        /\ ret = IsPrimeNumber(args[1])
        /\ (args[1] <= 1 => ret = FALSE)
        /\ (args[1] \in {2, 3} => ret = TRUE)

\* a prime for which the loop runs twice (i = 5, i = 11) and rejects nothing
C1_Witness == op = "is_prime" /\ args[1] = 127 /\ ret = TRUE

\* C2: generate_prime_numbers(limit) is exactly the primes of [2, limit], each
\* once, strictly ascending; empty when limit < 2; limit is last when prime.
C2_PrimesUpToLimit ==
    op = "generate_prime_numbers" =>
        /\ Range(ret) = {p \in 2 .. args[1] : IsPrimeNumber(p)}
        /\ StrictlyAscending(ret)
        /\ (args[1] < 2 => ret = <<>>)
        /\ (IsPrimeNumber(args[1]) => Last(ret) = args[1])

C2_Witness ==
    /\ op = "generate_prime_numbers"
    /\ args[1] = 20
    /\ ret = <<2, 3, 5, 7, 11, 13, 17, 19>>

(***************************************************************************)
(* Utils.factorial (lines 171-183), one frame at a time.  The interpreter  *)
(* refuses a call that would nest deeper than its recursion limit and      *)
(* raises RecursionError, which no frame of factorial catches.             *)
(***************************************************************************)
\* a base case of 1 in place of 0
factorial_is_base_one(number) == number = 1

\* line 181: if number == 0
factorial_is_base(number) == number = 0

FactorialArgs == (0 - MaxNegFactorialArg) .. MaxFactorialArg

InitFactorial ==
    /\ NoCall /\ args = <<>>
    /\ finput \in FactorialArgs
    /\ frames = <<>>
    /\ fvalue = 0
    /\ fstate = "idle"
    /\ calls = 0
    /\ files = <<>> /\ saved = <<>>
    /\ dirs = {} /\ before = <<>> /\ pc = <<>> /\ mk = <<>> /\ target = <<>>

\* the caller evaluates Utils.factorial(finput)
FactorialCall ==
    /\ fstate = "idle"
    /\ frames' = <<finput>>
    /\ fstate' = "running"
    /\ UNCHANGED <<finput, fvalue, calls, callVars, jsonVars, dirVars>>

\* lines 181-182: the innermost frame returns 1
FactorialBase ==
    /\ fstate = "running"
    /\ factorial_is_base(Last(frames))
    /\ fvalue' = 1
    /\ frames' = Front(frames)
    /\ fstate' = IF Len(frames) = 1 THEN "returned" ELSE "returning"
    /\ UNCHANGED <<finput, calls, callVars, jsonVars, dirVars>>

\* line 183: the innermost frame calls Utils.factorial(number - 1)
FactorialRecurse ==
    /\ fstate = "running"
    /\ ~factorial_is_base(Last(frames))
    /\ Len(frames) < RecursionLimit
    /\ frames' = Append(frames, Last(frames) - 1)
    /\ calls' = calls + 1
    /\ UNCHANGED <<finput, fvalue, fstate, callVars, jsonVars, dirVars>>

\* line 183, at the recursion limit: the call raises RecursionError, which
\* unwinds every frame and reaches the caller
FactorialOverflow ==
    /\ fstate = "running"
    /\ ~factorial_is_base(Last(frames))
    /\ Len(frames) >= RecursionLimit
    /\ frames' = <<>>
    /\ fstate' = "RecursionError"
    /\ UNCHANGED <<finput, fvalue, calls, callVars, jsonVars, dirVars>>

\* line 183: the recursive call has returned fvalue; multiply and return
FactorialReturn ==
    /\ fstate = "returning"
    /\ fvalue' = Last(frames) * fvalue
    /\ frames' = Front(frames)
    /\ fstate' = IF Len(frames) = 1 THEN "returned" ELSE "returning"
    /\ UNCHANGED <<finput, calls, callVars, jsonVars, dirVars>>

NextFactorial ==
    \/ FactorialCall
    \/ FactorialBase
    \/ FactorialRecurse
    \/ FactorialOverflow
    \/ FactorialReturn

SpecFactorial == InitFactorial /\ [][NextFactorial]_vars

RECURSIVE ProductUpTo(_)
\* 1 * 2 * ... * n
ProductUpTo(n) == IF n <= 0 THEN 1 ELSE n * ProductUpTo(n - 1)

\* what a call of factorial(finput) that runs to its end looks like: nothing
\* raised, progress until it has returned, exactly finput recursive calls, and
\* every frame returning the product 1 * ... * number of its own argument (so
\* factorial(0) = 1 and factorial(n) = n * factorial(n - 1))
ReturnsProduct ==
    /\ fstate # "RecursionError"
    /\ calls <= finput
    /\ (fstate # "returned" => ENABLED NextFactorial)
    /\ (fstate = "running" => Len(frames) = calls + 1)
    /\ (fstate \in {"returning", "returned"} =>
            /\ calls = finput
            /\ fvalue = ProductUpTo(finput - Len(frames)))
    /\ (fstate = "returned" => frames = <<>> /\ fvalue = ProductUpTo(finput))

\* C3 as claimed: for every n >= 0 factorial(n) terminates after exactly n
\* recursive calls and returns the product 1 * ... * n.
C3_EveryNonNegative == finput >= 0 => ReturnsProduct

\* C3 as amended: for every n >= 0 whose n + 1 nested frames fit within the
\* interpreter's recursion limit, factorial(n) terminates after exactly n
\* recursive calls and returns the product 1 * ... * n; for a larger n it
\* returns no value: the recursion stops at the limit with RecursionError.
C3_FactorialProduct ==
    /\ (finput >= 0 /\ finput + 1 <= RecursionLimit) => ReturnsProduct
    /\ (finput >= 0 /\ finput + 1 > RecursionLimit) =>
            /\ fstate \in {"idle", "running", "RecursionError"}
            /\ calls < RecursionLimit
            /\ (fstate = "running" => Len(frames) = calls + 1)
            /\ (fstate # "RecursionError" => ENABLED NextFactorial)
            /\ (fstate = "RecursionError" => calls = RecursionLimit - 1)

C3_Witness == finput = 5 /\ fstate = "returned" /\ fvalue = 120 /\ calls = 5

\* C4: for n < 0 factorial(n) never returns a value and ends in an
\* InvalidArgument-class error raised for the argument, not in the exhaustion
\* of the interpreter's recursion depth.
C4_NegativeIsInvalidArgument ==
    finput < 0 => fstate \notin {"returned", "RecursionError"}

(***************************************************************************)
(* Utils.list_intersection, list_union, list_difference (lines 199-238).   *)
(* set(list) keeps the distinct elements; list(set) lists them in the      *)
(* set's iteration order, which the language leaves unspecified: every     *)
(* order is a possible result.                                             *)
(***************************************************************************)
py_set(list) == Range(list)

py_list(S) == {s \in [1 .. Cardinality(S) -> S] : Range(s) = S}

list_intersection(list1, list2) == py_list(py_set(list1) \cap py_set(list2))

\* list1 + list2 in place of the union of the two sets
list_union_concat(list1, list2) == {list1 \o list2}

list_union(list1, list2) == py_list(py_set(list1) \cup py_set(list2))

list_difference(list1, list2) == py_list(py_set(list1) \ py_set(list2))

Elems == 1 .. MaxElem

Lists == SeqsUpTo(Elems, MaxListLen)

InitCollections ==
    /\ op = "idle"
    /\ args \in Lists \X Lists
    /\ ret = "None"
    /\ NoFactorial
    /\ files = <<>> /\ saved = <<>>
    /\ dirs = {} /\ before = <<>> /\ pc = <<>> /\ mk = <<>> /\ target = <<>>

CallListIntersection ==
    /\ op = "idle"
    /\ op' = "list_intersection"
    /\ ret' \in list_intersection(args[1], args[2])
    /\ UNCHANGED <<args, factVars, jsonVars, dirVars>>

CallListUnion ==
    /\ op = "idle"
    /\ op' = "list_union"
    /\ ret' \in list_union(args[1], args[2])
    /\ UNCHANGED <<args, factVars, jsonVars, dirVars>>

CallListDifference ==
    /\ op = "idle"
    /\ op' = "list_difference"
    /\ ret' \in list_difference(args[1], args[2])
    /\ UNCHANGED <<args, factVars, jsonVars, dirVars>>

NextCollections == CallListIntersection \/ CallListUnion \/ CallListDifference

SpecCollections == InitCollections /\ [][NextCollections]_vars

\* x occurs somewhere in the list
Occurs(x, list) == \E i \in DOMAIN list : list[i] = x

\* C5: each list operation returns a list without repeated elements whose
\* elements are those in both lists / in either list / in the first and not
\* the second; so union(a, b) and union(b, a) have the same elements, every
\* element of the intersection is in a and in b, and the difference shares no
\* element with b.
C5_SetOperations ==
    LET a == args[1]
        b == args[2]
    IN  /\ op = "list_intersection" =>
            /\ NoRepeats(ret)
            /\ Range(ret) = {x \in Elems : Occurs(x, a) /\ Occurs(x, b)}
            /\ \A i \in DOMAIN ret : Occurs(ret[i], a) /\ Occurs(ret[i], b)
        /\ op = "list_union" =>
            /\ NoRepeats(ret)
            /\ Range(ret) = {x \in Elems : Occurs(x, a) \/ Occurs(x, b)}
            /\ \A r \in list_union(b, a) : Range(r) = Range(ret)
        /\ op = "list_difference" =>
            /\ NoRepeats(ret)
            /\ Range(ret) = {x \in Elems : Occurs(x, a) /\ ~Occurs(x, b)}
            /\ \A i \in DOMAIN ret : ~Occurs(ret[i], b)

\* duplicates in both arguments, two elements in the union
C5_Witness ==
    /\ op = "list_union"
    /\ args = <<(<<2, 2>>), (<<1, 2>>)>>
    /\ ret = <<2, 1>>

(***************************************************************************)
(* Text helpers.  A character is a one-character string; str.lower, the    *)
(* class [A-Z] and str.index act on ASCII as Python defines them.          *)
(***************************************************************************)
AsciiUppercase ==
    <<"A", "B", "C", "D", "E", "F", "G", "H", "I", "J", "K", "L", "M",
      "N", "O", "P", "Q", "R", "S", "T", "U", "V", "W", "X", "Y", "Z">>

AsciiLowercase ==
    <<"a", "b", "c", "d", "e", "f", "g", "h", "i", "j", "k", "l", "m",
      "n", "o", "p", "q", "r", "s", "t", "u", "v", "w", "x", "y", "z">>

\* the character class [A-Z]
IsUpper(c) == \E i \in DOMAIN AsciiUppercase : AsciiUppercase[i] = c

char_lower(c) ==
    IF IsUpper(c)
    THEN AsciiLowercase[CHOOSE i \in DOMAIN AsciiUppercase : AsciiUppercase[i] = c]
    ELSE c

\* str.lower()
str_lower(text) == [i \in DOMAIN text |-> char_lower(text[i])]

(***************************************************************************)
(* Utils.camel_case_to_snake_case (lines 34-44):                           *)
(*     re.sub(r'(?<!^)(?=[A-Z])', '_', text).lower()                       *)
(***************************************************************************)
\* the pattern (?=[A-Z]) alone, without the lookbehind (?<!^)
camel_boundary_any(text, pos) ==
    pos < Len(text) /\ IsUpper(text[pos + 1])

\* whether the pattern matches (the empty string) at offset pos, 0 <= pos <=
\* len(text): not at the start of the string, and an upper-case letter follows
camel_boundary(text, pos) ==
    /\ pos # 0
    /\ pos < Len(text)
    /\ IsUpper(text[pos + 1])

RECURSIVE re_sub_boundary(_, _)
\* re.sub from offset pos on: '_' in place of every (empty) match, the text's
\* characters copied between matches
re_sub_boundary(text, pos) ==
    IF pos > Len(text) THEN <<>>
    ELSE (IF camel_boundary(text, pos) THEN <<"_">> ELSE <<>>)
         \o (IF pos < Len(text) THEN <<text[pos + 1]>> ELSE <<>>)
         \o re_sub_boundary(text, pos + 1)

camel_case_to_snake_case(text) == str_lower(re_sub_boundary(text, 0))

(***************************************************************************)
(* Utils.remove_duplicates (lines 88-98):                                  *)
(*     ''.join(sorted(set(text), key=text.index))                          *)
(***************************************************************************)
\* text.index(c): the offset of the first occurrence of c
str_index(text, c) ==
    (CHOOSE i \in DOMAIN text : text[i] = c /\ \A j \in 1 .. (i - 1) : text[j] # c) - 1

\* text.rindex(c): the offset of the last occurrence of c
str_rindex(text, c) ==
    (CHOOSE i \in DOMAIN text : text[i] = c /\ \A j \in (i + 1) .. Len(text) : text[j] # c) - 1

RECURSIVE sorted(_, _)
\* sorted(S, key=...), key given as a function on S; the keys used here are
\* distinct, so the set's iteration order does not show
sorted(S, key) ==
    IF S = {} THEN <<>>
    ELSE LET least == CHOOSE x \in S : \A y \in S : key[x] <= key[y]
         IN  <<least>> \o sorted(S \ {least}, key)

\* ''.join(chars): the characters in order
str_join(chars) == chars

\* key=text.rindex in place of key=text.index
remove_duplicates_rindex(text) ==
    str_join(sorted(py_set(text), [c \in py_set(text) |-> str_rindex(text, c)]))

remove_duplicates(text) ==
    str_join(sorted(py_set(text), [c \in py_set(text) |-> str_index(text, c)]))

TextAlphabet == {"a", "b", "A", "B", "_"}

\* the string of the demonstration block (line 327)
HelloWorld == <<"H", "e", "l", "l", "o", "W", "o", "r", "l", "d">>

Texts == SeqsUpTo(TextAlphabet, MaxTextLen) \cup {HelloWorld}

InitText ==
    /\ op = "idle"
    /\ args \in {<<t>> : t \in Texts}
    /\ ret = "None"
    /\ NoFactorial
    /\ files = <<>> /\ saved = <<>>
    /\ dirs = {} /\ before = <<>> /\ pc = <<>> /\ mk = <<>> /\ target = <<>>

CallCamelCaseToSnakeCase ==
    /\ op = "idle"
    /\ op' = "camel_case_to_snake_case"
    /\ ret' = camel_case_to_snake_case(args[1])
    /\ UNCHANGED <<args, factVars, jsonVars, dirVars>>

CallRemoveDuplicates ==
    /\ op = "idle"
    /\ op' = "remove_duplicates"
    /\ ret' = remove_duplicates(args[1])
    /\ UNCHANGED <<args, factVars, jsonVars, dirVars>>

NextText == CallCamelCaseToSnakeCase \/ CallRemoveDuplicates

SpecText == InitText /\ [][NextText]_vars

IsAsciiLetter(c) ==
    \E i \in DOMAIN AsciiUppercase : c \in {AsciiUppercase[i], AsciiLowercase[i]}

\* upper-case letters of text at 1-based indexes 2 .. i (not the leading one)
UppersAfterFirst(text, i) == Cardinality({j \in 2 .. i : IsUpper(text[j])})

\* C6: on a string of ASCII letters camel_case_to_snake_case puts exactly one
\* underscore right before each upper-case letter that is not at index 0, none
\* before a leading one, and lower-cases every letter; the result is longer
\* than the text by the number of upper-case letters at index >= 1.
C6_CamelToSnake ==
    (op = "camel_case_to_snake_case"
        /\ \A i \in DOMAIN args[1] : IsAsciiLetter(args[1][i])) =>
        LET t == args[1]
            at(i) == i + UppersAfterFirst(t, i)  \* where t[i] lands in ret
        IN  /\ Len(ret) = Len(t) + UppersAfterFirst(t, Len(t))
            /\ \A i \in DOMAIN t :
                   /\ ret[at(i)] = char_lower(t[i])
                   /\ ~IsUpper(ret[at(i)])
                   /\ (i > 1 /\ IsUpper(t[i])) => ret[at(i) - 1] = "_"
            /\ Cardinality({k \in DOMAIN ret : ret[k] = "_"})
                   = UppersAfterFirst(t, Len(t))
            /\ (ret # <<>> => ret[1] # "_")

C6_Witness ==
    /\ op = "camel_case_to_snake_case"
    /\ args[1] = HelloWorld
    /\ ret = <<"h", "e", "l", "l", "o", "_", "w", "o", "r", "l", "d">>

\* 1-based indexes at which a character occurs for the first time
FirstOccurrences(text) ==
    {i \in DOMAIN text : \A j \in 1 .. (i - 1) : text[j] # text[i]}

\* the k-th smallest member of a set of integers
KthSmallest(S, k) == CHOOSE i \in S : Cardinality({j \in S : j <= i}) = k

\* C7: remove_duplicates(s) is s with every character that appeared earlier
\* deleted: each distinct character of s once, nothing else, in the order of
\* first occurrence; and remove_duplicates leaves its own result unchanged.
C7_FirstOccurrenceOrder ==
    op = "remove_duplicates" =>
        LET t == args[1]
            first == FirstOccurrences(t)
        IN  /\ Len(ret) = Cardinality(first)
            /\ \A k \in DOMAIN ret : ret[k] = t[KthSmallest(first, k)]
            /\ Range(ret) = Range(t)
            /\ NoRepeats(ret)
            /\ remove_duplicates(ret) = ret

C7_Witness ==
    /\ op = "remove_duplicates"
    /\ args[1] = HelloWorld
    /\ ret = <<"H", "e", "l", "o", "W", "r", "d">>

(***************************************************************************)
(* JSON values, as json.dump accepts and json.load builds them: None,      *)
(* bool, int, str, list, and dict with str keys (a dict keeps its items in *)
(* insertion order: a sequence of <<key, value>> with distinct keys).      *)
(***************************************************************************)
JNull == [t |-> "null"]

JBool(b) == [t |-> "bool", b |-> b]

JInt(i) == [t |-> "int", i |-> i]

JStr(s) == [t |-> "str", s |-> s]

JList(xs) == [t |-> "list", xs |-> xs]

JDict(kv) == [t |-> "dict", kv |-> kv]

\* an exception that reaches the caller
Raised(exc) == [t |-> "raise", exc |-> exc]

\* indent=4 (line 250)
IndentWidth == 4

Digits == <<"0", "1", "2", "3", "4", "5", "6", "7", "8", "9">>

RECURSIVE nat_repr(_)
nat_repr(n) ==
    IF n < 10 THEN <<Digits[n + 1]>>
    ELSE nat_repr(n \div 10) \o <<Digits[(n % 10) + 1]>>

\* int.__repr__, which json uses for integers
int_repr(i) == IF i < 0 THEN <<"-">> \o nat_repr(0 - i) ELSE nat_repr(i)

RECURSIVE json_escape(_)
\* the body of a JSON string: '"' and '\' get a backslash in front
json_escape(s) ==
    IF s = <<>> THEN <<>>
    ELSE (IF Head(s) \in {"\"", "\\"} THEN <<"\\", Head(s)>> ELSE <<Head(s)>>)
         \o json_escape(Tail(s))

json_string(s) == <<"\"">> \o json_escape(s) \o <<"\"">>

RECURSIVE spaces(_)
spaces(n) == IF n <= 0 THEN <<>> ELSE <<" ">> \o spaces(n - 1)

\* the line break and indentation json.dump puts before an item at `level`
newline_indent(level) == <<"\n">> \o spaces(IndentWidth * level)

RECURSIVE json_dumps(_, _)
RECURSIVE json_dumps_items(_, _, _)
RECURSIVE json_dumps_pairs(_, _, _)

\* items i .. of a non-empty list, each on its own line, separated by ','
json_dumps_items(xs, i, level) ==
    newline_indent(level) \o json_dumps(xs[i], level)
    \o (IF i < Len(xs) THEN <<",">> \o json_dumps_items(xs, i + 1, level)
        ELSE <<>>)

\* items i .. of a non-empty dict, as "key": value
json_dumps_pairs(kv, i, level) ==
    newline_indent(level) \o json_string(kv[i][1]) \o <<":", " ">>
    \o json_dumps(kv[i][2], level)
    \o (IF i < Len(kv) THEN <<",">> \o json_dumps_pairs(kv, i + 1, level)
        ELSE <<>>)

\* the text json.dump(value, f, indent=4) writes, for a value nested at `level`
json_dumps(value, level) ==
    CASE value.t = "null" -> <<"n", "u", "l", "l">>
      [] value.t = "bool" -> IF value.b THEN <<"t", "r", "u", "e">>
                             ELSE <<"f", "a", "l", "s", "e">>
      [] value.t = "int"  -> int_repr(value.i)
      [] value.t = "str"  -> json_string(value.s)
      [] value.t = "list" ->
            IF value.xs = <<>> THEN <<"[", "]">>
            ELSE <<"[">> \o json_dumps_items(value.xs, 1, level + 1)
                 \o newline_indent(level) \o <<"]">>
      [] value.t = "dict" ->
            IF value.kv = <<>> THEN <<"{", "}">>
            ELSE <<"{">> \o json_dumps_pairs(value.kv, 1, level + 1)
                 \o newline_indent(level) \o <<"}">>

(***************************************************************************)
(* json.load: the text parsed back.  Every parse_* takes the text and the  *)
(* 1-based index of the next character and yields [ok, val, next], or      *)
(* [ok |-> FALSE] where the decoder raises JSONDecodeError.                *)
(***************************************************************************)
ParseError == [ok |-> FALSE]

Parsed(val, next) == [ok |-> TRUE, val |-> val, next |-> next]

CharAt(s, i) == IF i \in DOMAIN s THEN s[i] ELSE "EOF"

IsDigit(c) == \E d \in DOMAIN Digits : Digits[d] = c

DigitValue(c) == (CHOOSE d \in DOMAIN Digits : Digits[d] = c) - 1

RECURSIVE skip_ws(_, _)
skip_ws(s, i) ==
    IF CharAt(s, i) \in {" ", "\n", "\t", "\r"} THEN skip_ws(s, i + 1) ELSE i

\* whether the text holds `word` from index i on
HasWord(s, i, word) ==
    /\ i + Len(word) - 1 <= Len(s)
    /\ SubSeq(s, i, i + Len(word) - 1) = word

RECURSIVE parse_string(_, _, _)
\* the characters after an opening '"', up to the closing one
parse_string(s, i, acc) ==
    LET c == CharAt(s, i)
    IN  IF c = "EOF" \/ c = "\n" THEN ParseError
        ELSE IF c = "\"" THEN Parsed(acc, i + 1)
        ELSE IF c = "\\"
        THEN IF CharAt(s, i + 1) \in {"\"", "\\"}
             THEN parse_string(s, i + 2, Append(acc, CharAt(s, i + 1)))
             ELSE ParseError
        ELSE parse_string(s, i + 1, Append(acc, c))

RECURSIVE parse_digits(_, _, _)
parse_digits(s, i, acc) ==
    IF IsDigit(CharAt(s, i))
    THEN parse_digits(s, i + 1, 10 * acc + DigitValue(CharAt(s, i)))
    ELSE Parsed(acc, i)

\* an integer: '-'? (0 | [1-9][0-9]*)
parse_int(s, i) ==
    LET neg == CharAt(s, i) = "-"
        j == IF neg THEN i + 1 ELSE i
    IN  IF ~IsDigit(CharAt(s, j)) THEN ParseError
        ELSE LET d == IF CharAt(s, j) = "0" THEN Parsed(0, j + 1)
                      ELSE parse_digits(s, j, 0)
             IN  Parsed(JInt(IF neg THEN 0 - d.val ELSE d.val), d.next)

\* dict[key] = val: a repeated key keeps its place and takes the new value
dict_set(kv, key, val) ==
    IF \E n \in DOMAIN kv : kv[n][1] = key
    THEN [n \in DOMAIN kv |-> IF kv[n][1] = key THEN <<key, val>> ELSE kv[n]]
    ELSE Append(kv, <<key, val>>)

RECURSIVE parse_value(_, _)
RECURSIVE parse_array(_, _, _)
RECURSIVE parse_object(_, _, _)

\* the items of an array, i at the first character of an item
parse_array(s, i, acc) ==
    LET item == parse_value(s, i)
    IN  IF ~item.ok THEN ParseError
        ELSE LET j == skip_ws(s, item.next)
                 xs == Append(acc, item.val)
             IN  IF CharAt(s, j) = "," THEN parse_array(s, skip_ws(s, j + 1), xs)
                 ELSE IF CharAt(s, j) = "]" THEN Parsed(JList(xs), j + 1)
                 ELSE ParseError

\* the items of an object, i at the '"' that opens a key
parse_object(s, i, acc) ==
    IF CharAt(s, i) # "\"" THEN ParseError
    ELSE LET key == parse_string(s, i + 1, <<>>)
         IN  IF ~key.ok THEN ParseError
             ELSE LET c == skip_ws(s, key.next)
                  IN  IF CharAt(s, c) # ":" THEN ParseError
                      ELSE LET item == parse_value(s, skip_ws(s, c + 1))
                           IN  IF ~item.ok THEN ParseError
                               ELSE LET j == skip_ws(s, item.next)
                                        kv == dict_set(acc, key.val, item.val)
                                    IN  IF CharAt(s, j) = ","
                                        THEN parse_object(s, skip_ws(s, j + 1), kv)
                                        ELSE IF CharAt(s, j) = "}"
                                        THEN Parsed(JDict(kv), j + 1)
                                        ELSE ParseError

parse_value(s, i) ==
    LET c == CharAt(s, i)
    IN  IF c = "\"" THEN
            LET str == parse_string(s, i + 1, <<>>)
            IN  IF str.ok THEN Parsed(JStr(str.val), str.next) ELSE ParseError
        ELSE IF c = "{" THEN
            LET j == skip_ws(s, i + 1)
            IN  IF CharAt(s, j) = "}" THEN Parsed(JDict(<<>>), j + 1)
                ELSE parse_object(s, j, <<>>)
        ELSE IF c = "[" THEN
            LET j == skip_ws(s, i + 1)
            IN  IF CharAt(s, j) = "]" THEN Parsed(JList(<<>>), j + 1)
                ELSE parse_array(s, j, <<>>)
        ELSE IF HasWord(s, i, <<"n", "u", "l", "l">>) THEN Parsed(JNull, i + 4)
        ELSE IF HasWord(s, i, <<"t", "r", "u", "e">>) THEN Parsed(JBool(TRUE), i + 4)
        ELSE IF HasWord(s, i, <<"f", "a", "l", "s", "e">>)
        THEN Parsed(JBool(FALSE), i + 5)
        ELSE IF c = "-" \/ IsDigit(c) THEN parse_int(s, i)
        ELSE ParseError

\* json.loads: one value, white space around it, and nothing else
json_loads(s) ==
    LET r == parse_value(s, skip_ws(s, 1))
    IN  IF r.ok /\ skip_ws(s, r.next) = Len(s) + 1 THEN r.val
        ELSE Raised("JSONDecodeError")

(***************************************************************************)
(* Utils.save_json (lines 241-250) and Utils.load_json (lines 253-264) on  *)
(* a file system that maps each path to the text of its file.              *)
(***************************************************************************)
JsonPaths == {"a.json", "b.json"}

\* the content of a path at which no file exists
NoFile == <<"ENOENT">>

\* no save_json on the path yet
NoData == [t |-> "unsaved"]

\* open(filename, 'a'): the content is kept and written after
open_append(content) == IF content = NoFile THEN <<>> ELSE content

\* open(filename, 'w') (line 249): the file is created or truncated
open_write(content) == <<>>

\* f.write(text) on the open file
file_write(content, text) == content \o text

save_json(fs, data, filename) ==
    [fs EXCEPT ![filename] = file_write(open_write(fs[filename]), json_dumps(data, 0))]

load_json(fs, filename) ==
    IF fs[filename] = NoFile THEN Raised("FileNotFoundError")
    ELSE json_loads(fs[filename])

JsonScalars ==
    {JNull, JBool(TRUE), JBool(FALSE), JInt(0), JInt(-7), JInt(120),
     JStr(<<>>), JStr(<<"a", "\"", "\\", "b">>)}

JsonKeys == {<<"k">>, <<"\"", "q">>}

\* a dict inside a list inside a dict, and empty containers inside a list
JsonNested ==
    {JDict(<<<<(<<"k">>), JList(<<JNull, JDict(<<<<(<<"q">>), JInt(-7)>>>>)>>)>>>>),
     JList(<<JList(<<>>), JDict(<<>>), JList(<<JStr(<<"a">>)>>)>>)}

\* the data handed to save_json: lists and dicts (line 241)
JsonData ==
    {JList(xs) : xs \in SeqsUpTo({JInt(120), JStr(<<"a">>)}, MaxJsonLen)}
    \cup {JList(<<x>>) : x \in JsonScalars}
    \cup {JDict(<<>>)}
    \cup {JDict(<<<<k, x>>>>) : k \in JsonKeys, x \in {JBool(TRUE), JList(<<JInt(0)>>)}}
    \cup {JDict(<<<<(<<"k">>), x>>, <<(<<"\"", "q">>), y>>>>) :
              x, y \in {JNull, JList(<<JInt(0)>>)}}
    \cup JsonNested

(***************************************************************************)
(* Utils.save_csv (lines 267-280): csv.writer with the default dialect     *)
(* (',' between fields, '"' around a field that holds ',', '"', CR or LF,  *)
(* with '"' doubled inside, CR LF after each row) on a file opened with    *)
(* 'w', newline=''.  A cell is None, an int or a str.                      *)
(***************************************************************************)
CsvLineTerminator == <<"\r", "\n">>

\* the text of a cell: '' for None, str(cell) otherwise
csv_cell_text(cell) ==
    CASE cell.t = "null" -> <<>>
      [] cell.t = "int"  -> int_repr(cell.i)
      [] cell.t = "str"  -> cell.s

csv_needs_quotes(text) ==
    \E i \in DOMAIN text : text[i] \in {",", "\"", "\r", "\n"}

RECURSIVE csv_double_quotes(_)
csv_double_quotes(text) ==
    IF text = <<>> THEN <<>>
    ELSE (IF Head(text) = "\"" THEN <<"\"", "\"">> ELSE <<Head(text)>>)
         \o csv_double_quotes(Tail(text))

csv_field(text) ==
    IF csv_needs_quotes(text)
    THEN <<"\"">> \o csv_double_quotes(text) \o <<"\"">>
    ELSE text

RECURSIVE csv_join(_, _)
\* fields i .. of a row, ',' between them
csv_join(row, i) ==
    IF i > Len(row) THEN <<>>
    ELSE csv_field(csv_cell_text(row[i]))
         \o (IF i < Len(row) THEN <<",">> ELSE <<>>)
         \o csv_join(row, i + 1)

\* writer.writerow(row); a row of one empty field is written as ""
csv_writerow(row) ==
    (IF Len(row) = 1 /\ csv_cell_text(row[1]) = <<>> THEN <<"\"", "\"">>
     ELSE csv_join(row, 1))
    \o CsvLineTerminator

RECURSIVE csv_writerows(_)
csv_writerows(rows) ==
    IF rows = <<>> THEN <<>>
    ELSE csv_writerow(Head(rows)) \o csv_writerows(Tail(rows))

\* headers is None or a list of str; None and [] write no header row
save_csv(fs, data, filename, headers) ==
    [fs EXCEPT ![filename] =
        file_write(
            file_write(open_write(fs[filename]),
                       IF headers # <<>> THEN csv_writerow(headers) ELSE <<>>),
            csv_writerows(data))]

\* the path was written by save_csv last
NotJson == [t |-> "csv"]

CsvRows ==
    {<<>>,
     <<(<<JInt(1), JInt(2)>>), (<<JStr(<<"x">>), JStr(<<"y">>)>>)>>,
     <<(<<JInt(120)>>)>>,
     <<(<<JStr(<<>>)>>), (<<JNull, JStr(<<"a", ",", "\"", "b">>)>>), <<>>>>}

CsvHeaders == {<<>>, <<JStr(<<"h", "1">>), JStr(<<"h", "2">>)>>}

InitJson ==
    /\ op = "idle" /\ args = <<>> /\ ret = Raised("none")
    /\ NoFactorial
    /\ files = [p \in JsonPaths |-> NoFile]
    /\ saved = [p \in JsonPaths |-> NoData]
    /\ dirs = {} /\ before = <<>> /\ pc = <<>> /\ mk = <<>> /\ target = <<>>

SaveJson(data, filename) ==
    /\ op' = "save_json"
    /\ args' = <<filename, data>>
    /\ ret' = JNull
    /\ files' = save_json(files, data, filename)
    /\ saved' = [saved EXCEPT ![filename] = data]
    /\ UNCHANGED <<factVars, dirVars>>

LoadJson(filename) ==
    /\ op' = "load_json"
    /\ args' = <<filename, JNull>>
    /\ ret' = load_json(files, filename)
    /\ UNCHANGED <<factVars, jsonVars, dirVars>>

SaveCsv(data, filename, headers) ==
    /\ op' = "save_csv"
    /\ args' = <<filename, data, headers>>
    /\ ret' = JNull
    /\ files' = save_csv(files, data, filename, headers)
    /\ saved' = [saved EXCEPT ![filename] = NotJson]
    /\ UNCHANGED <<factVars, dirVars>>

NextJson ==
    \/ \E data \in JsonData, filename \in JsonPaths : SaveJson(data, filename)
    \/ \E filename \in JsonPaths : LoadJson(filename)
    \/ \E data \in CsvRows, filename \in JsonPaths, headers \in CsvHeaders :
           SaveCsv(data, filename, headers)

SpecJson == InitJson /\ [][NextJson]_vars

\* C8: load_json(p) returns the data of the most recent save_json on p
\* whenever that save_json is the last call that wrote p: what p held before
\* (JSON or CSV) is fully replaced, and a save to any other path since makes
\* no difference; a path never written has no file.
C8_JsonRoundTrip ==
    /\ \A p \in JsonPaths :
           CASE saved[p] = NoData -> load_json(files, p) = Raised("FileNotFoundError")
             [] saved[p] = NotJson -> TRUE
             [] OTHER -> load_json(files, p) = saved[p]
    /\ (op = "load_json" /\ saved[args[1]] \notin {NoData, NotJson}) =>
           ret = saved[args[1]]

\* a nested value read back from a.json, which held other data before, while
\* b.json holds different data
C8_Witness ==
    /\ op = "load_json"
    /\ args[1] = "a.json"
    /\ ret \in JsonNested
    /\ ret.t = "dict"
    /\ saved["b.json"] = JList(<<JStr(<<"a", "\"", "\\", "b">>)>>)

(***************************************************************************)
(* Utils.create_directory (lines 298-306) on a file system that is the set *)
(* of directories that exist; a path is the sequence of its components,    *)
(* relative to a root that always exists.                                  *)
(***************************************************************************)
DirNames == {"a", "b"}

DirPaths == SeqsUpTo(DirNames, MaxDirDepth) \ {<<>>}

\* the path and every ancestor of it below the root
Prefixes(path) == {SubSeq(path, 1, k) : k \in 1 .. Len(path)}

\* file systems: a directory exists only inside an existing directory
DirSets == {S \in SUBSET DirPaths : \A path \in S : Prefixes(path) \subseteq S}

NoException == Raised("none")

os_path_exists(fs, directory) == directory \in fs

\* os.makedirs(directory): the missing ancestors are created, then the leaf,
\* whose mkdir fails when it exists
os_makedirs(fs, directory) ==
    IF directory \in fs
    THEN [dirs |-> fs \cup Prefixes(directory), raised |-> Raised("FileExistsError")]
    ELSE [dirs |-> fs \cup Prefixes(directory), raised |-> NoException]

\* os.makedirs without the os.path.exists check of line 305
create_directory_unchecked(fs, directory) == os_makedirs(fs, directory)

create_directory(fs, directory) ==
    IF ~os_path_exists(fs, directory)
    THEN os_makedirs(fs, directory)
    ELSE [dirs |-> fs, raised |-> NoException]

InitDirectory ==
    /\ op = "idle" /\ args = <<>> /\ ret = NoException
    /\ NoFactorial
    /\ files = <<>> /\ saved = <<>>
    /\ dirs = {}
    /\ before = <<>>
    /\ pc = <<>> /\ mk = <<>> /\ target = <<>>

\* one call, start to end; `before` keeps the path and the file system of the
\* last two calls as they started
CreateDirectory(directory) ==
    LET r == create_directory(dirs, directory)
    IN  /\ op' = "create_directory"
        /\ args' = <<directory>>
        /\ ret' = r.raised
        /\ dirs' = r.dirs
        /\ before' = (IF before = <<>> THEN <<>> ELSE <<Last(before)>>)
                         \o <<[path |-> directory, dirs |-> dirs]>>
        /\ UNCHANGED <<factVars, jsonVars, pc, mk, target>>

NextDirectory == \E directory \in DirPaths : CreateDirectory(directory)

SpecDirectory == InitDirectory /\ [][NextDirectory]_vars

\* C9: in a sequential run no create_directory call raises; a call on a path
\* that does not exist creates it (and removes nothing), a call on a path
\* that exists leaves the file system as it was; so the second of two calls
\* in a row on one path changes nothing.
C9_CreateDirectoryIdempotent ==
    before # <<>> =>
        LET last == Last(before)
        IN  /\ ret = NoException
            /\ last.path \in last.dirs => dirs = last.dirs
            /\ last.path \notin last.dirs =>
                   (last.path \in dirs /\ last.dirs \subseteq dirs)
            /\ (Len(before) = 2 /\ before[1].path = last.path) =>
                   (dirs = last.dirs /\ last.path \in dirs)

\* the second of two calls in a row on a/b, which the first one created
C9_Witness ==
    /\ Len(before) = 2
    /\ before[1].path = <<"a", "b">>
    /\ before[2].path = <<"a", "b">>
    /\ before[1].dirs = {}
    /\ dirs = {<<"a">>, <<"a", "b">>}
    /\ ret = NoException

(***************************************************************************)
(* Two callers in Utils.create_directory at once, on one path that does    *)
(* not exist when they start.  The file system is shared, and each system  *)
(* call is a step of its own: the os.path.exists of line 305, and inside   *)
(* the os.makedirs of line 306 the os.path.exists of the parent and one    *)
(* os.mkdir per missing component:                                         *)
(*     makedirs(name): head = parent of name                               *)
(*         if head and not exists(head):                                   *)
(*             try: makedirs(head)  except FileExistsError: pass           *)
(*         mkdir(name)               (FileExistsError when name exists)    *)
(***************************************************************************)
Callers == {"caller1", "caller2"}

\* not inside os.makedirs
MkNone == [at |-> "none", k |-> 0]

\* inside makedirs(first k components of target), at its exists(head)
MkHead(k) == [at |-> "head", k |-> k]

\* inside makedirs(first k components of target), at its mkdir
MkMkdir(k) == [at |-> "mkdir", k |-> k]

\* where makedirs(first k components) starts: a single component has no head
makedirs_entry(k) == IF k > 1 THEN MkHead(k) ELSE MkMkdir(k)

InitRace ==
    /\ op = "create_directory" /\ args = <<>> /\ ret = NoException
    /\ NoFactorial
    /\ files = <<>> /\ saved = <<>>
    /\ target \in DirPaths
    /\ dirs \in {S \in DirSets : target \notin S}
    /\ before = <<>>
    /\ pc = [c \in Callers |-> "exists"]
    /\ mk = [c \in Callers |-> MkNone]

\* line 305: if not os.path.exists(directory); line 306 enters os.makedirs
RaceExists(c) ==
    /\ pc[c] = "exists"
    /\ IF os_path_exists(dirs, target)
       THEN pc' = [pc EXCEPT ![c] = "returned"] /\ mk' = mk
       ELSE /\ pc' = [pc EXCEPT ![c] = "makedirs"]
            /\ mk' = [mk EXCEPT ![c] = makedirs_entry(Len(target))]
    /\ UNCHANGED <<callVars, factVars, jsonVars, dirs, before, target>>

\* os.makedirs: exists(head); a missing head is made by makedirs(head) first
RaceMakedirsHead(c) ==
    /\ pc[c] = "makedirs"
    /\ mk[c].at = "head"
    /\ LET k == mk[c].k
       IN  mk' = [mk EXCEPT ![c] =
                     IF os_path_exists(dirs, SubSeq(target, 1, k - 1))
                     THEN MkMkdir(k)
                     ELSE makedirs_entry(k - 1)]
    /\ UNCHANGED <<callVars, factVars, jsonVars, dirs, before, pc, target>>

\* os.makedirs: mkdir(name).  FileExistsError from the makedirs of a head is
\* passed over by the makedirs that called it, which goes on to its own
\* mkdir; from the mkdir of the target itself it ends the call of line 306.
RaceMakedirsMkdir(c) ==
    /\ pc[c] = "makedirs"
    /\ mk[c].at = "mkdir"
    /\ LET k == mk[c].k
           name == SubSeq(target, 1, k)
       IN  /\ dirs' = dirs \cup {name}
           /\ IF k < Len(target)
              THEN pc' = pc /\ mk' = [mk EXCEPT ![c] = MkMkdir(k + 1)]
              ELSE /\ pc' = [pc EXCEPT ![c] = IF name \in dirs
                                              THEN "FileExistsError"
                                              ELSE "returned"]
                   /\ mk' = [mk EXCEPT ![c] = MkNone]
    /\ UNCHANGED <<callVars, factVars, jsonVars, before, target>>

NextRace ==
    \E c \in Callers :
        RaceExists(c) \/ RaceMakedirsHead(c) \/ RaceMakedirsMkdir(c)

SpecRace == InitRace /\ [][NextRace]_vars

\* C10: under every interleaving of the two callers' checks and creations
\* neither call raises, and the directory exists once both have finished.
C10_NeitherCallerRaises ==
    /\ \A c \in Callers : pc[c] # "FileExistsError"
    /\ (\A c \in Callers : pc[c] = "returned") => target \in dirs

=============================================================================
